---- MODULE Spec2Model ----
(***************************************************************************)
(* Model of the ra_db source database (crates/ra_db/src/lib.rs) and of the *)
(* assist context (crates/ra_assists/src/assist_ctx.rs).                   *)
(*                                                                         *)
(* The query group SourceDatabase declares the input queries and the two   *)
(* memoized derived queries parse and source_root_crates; the storage the  *)
(* attribute generates (revision counter, memo table, cancellation flag)   *)
(* is modelled after sections 4.1-4.3 and 5 of the specification.          *)
(***************************************************************************)
EXTENDS Integers, Sequences, FiniteSets, TLC

\* ---------------------------------------------------------------- bounds
MaxRev == 2
MaxClones == 1

Files == {1, 2}
Roots == {1}
Sessions == {1, 2}
Texts == {"fn f() {}", "fn g() {}"}
SourceRootVals == {{1}, {1, 2}}
CrateGraphVals == {{<<1, 1>>}, {<<1, 1>>, <<2, 2>>}}
RelativePaths == {"lib.rs", "main.rs"}
SourceRootIds == {1, 2}

\* Option values: <<>> is None, <<v>> is Some(v).
NoneV == <<>>
Some(v) == <<v>>
IsSome(o) == Len(o) = 1
Get(o) == o[1]

\* ------------------------------------------------- the query group
InputQueries == {"file_text", "file_relative_path", "file_source_root",
                 "source_root", "crate_graph"}

Storage_volatile(q) == IF q \in InputQueries THEN "input" ELSE "volatile"

\* lib.rs 72-93: a query marked #[salsa::input] is an input, every other
\* query of the group is a memoized derived query.
Storage(q) == IF q \in InputQueries THEN "input" ELSE "memoized"

FileTextKey(f) == <<"file_text", f>>
FileRelativePathKey(f) == <<"file_relative_path", f>>
FileSourceRootKey(f) == <<"file_source_root", f>>
SourceRootKey(r) == <<"source_root", r>>
CrateGraphKey == <<"crate_graph", 0>>

\* The inputs the two derived queries of the group read.
QueriedKeys == {FileTextKey(f) : f \in Files} \cup {SourceRootKey(r) : r \in Roots}
                   \cup {CrateGraphKey}

\* The inputs no query of this group reads: they are stored for file 1.
UnqueriedKeys == {FileRelativePathKey(1), FileSourceRootKey(1)}

InputKeys == QueriedKeys \cup UnqueriedKeys

InputVals(k) == IF k[1] = "file_text" THEN Texts
                ELSE IF k[1] = "file_relative_path" THEN RelativePaths
                ELSE IF k[1] = "file_source_root" THEN SourceRootIds
                ELSE IF k[1] = "source_root" THEN SourceRootVals
                ELSE CrateGraphVals

\* The Input Store once the project is loaded: file 2 has no text yet.
InitialInputs ==
    [k \in InputKeys |->
        IF k = FileTextKey(1) THEN Some("fn f() {}")
        ELSE IF k = FileTextKey(2) THEN NoneV
        ELSE IF k[1] = "file_relative_path" THEN Some("lib.rs")
        ELSE IF k[1] = "file_source_root" THEN Some(1)
        ELSE IF k[1] = "source_root" THEN Some({1, 2})
        ELSE Some({<<1, 1>>})]

ParseKey(f) == <<"parse", f>>
CratesKey(r) == <<"source_root_crates", r>>
DerivedKeys == {ParseKey(f) : f \in Files} \cup {CratesKey(r) : r \in Roots}

\* ------------------------------------------------- pure helpers
\* ra_syntax SourceFile::parse: a deterministic function of the text.
SourceFile_parse(text) == [tree |-> [kind |-> "SOURCE_FILE", text |-> text],
                           errors |-> <<>>]

\* CrateGraph::crate_id_for_crate_root: the crate whose root file is `file`.
crate_id_for_crate_root(graph, file) ==
    IF \E p \in graph : p[2] = file
    THEN Some((CHOOSE p \in graph : p[2] = file)[1])
    ELSE NoneV

RECURSIVE SortedSeq(_)
SortedSeq(S) == IF S = {} THEN <<>>
                ELSE LET m == CHOOSE x \in S : \A y \in S : x <= y
                     IN <<m>> \o SortedSeq(S \ {m})

RECURSIVE filter_map(_, _)
filter_map(files, graph) ==
    IF files = <<>> THEN <<>>
    ELSE LET c == crate_id_for_crate_root(graph, Head(files))
         IN (IF IsSome(c) THEN <<Get(c)>> ELSE <<>>) \o filter_map(Tail(files), graph)

parse_query_other_file(file_id) == FileTextKey(CHOOSE g \in Files : g # file_id)

\* lib.rs 105: parse_query reads file_text(file_id).
parse_query_read(file_id) == FileTextKey(file_id)

\* lib.rs 106: parse_query returns SourceFile::parse(&*text).
parse_query_result(text) == SourceFile_parse(text)

\* lib.rs 98-100: root.files.values().filter_map(crate_id_for_crate_root).collect()
source_root_crates_result(root, graph) == filter_map(SortedSeq(root), graph)

\* ------------------------------------------------- state
VARIABLES
    inputs,     \* Input Store: input key -> Option value
    rev,        \* the global revision
    changedAt,  \* input key -> revision of its last committed write
    cache,      \* derived key -> Option [value, verified_at, deps]
    inflight,   \* derived key -> session computing it, 0 when none
    pending,    \* Option <<key, value>>: the write waiting to be applied
    sess,       \* session -> its request, position and locals
    execs,      \* history: executions of each computation function since the last write
    returned,   \* history: values those reads returned
    dropped,    \* history: Option value of the entry the last write removed
    staleCommit, \* history: a computation of a flagged session was committed
    discarded,  \* history: a finished computation was not committed since the last set call
    log,        \* history: the assist results obtained at this revision for one file and handler
    enumTree    \* history: file -> Option tree the last enumerate phase was built from

vars == <<inputs, rev, changedAt, cache, inflight, pending, sess,
          execs, returned, dropped, staleCommit, discarded, log, enumTree>>

Handlers == {"add_derive", "flip"}

NoReq == [kind |-> "none", file |-> 0, root |-> 0, compute |-> FALSE, handler |-> ""]
ParseReq(f) == [NoReq EXCEPT !.kind = "parse", !.file = f]
CratesReq(r) == [NoReq EXCEPT !.kind = "crates", !.root = r]
AssistReq(f, c, h) == [NoReq EXCEPT !.kind = "assist", !.file = f, !.compute = c, !.handler = h]

Requests == {ParseReq(f) : f \in Files} \cup {CratesReq(r) : r \in Roots}
AssistRequests == {AssistReq(1, c, h) : c \in BOOLEAN, h \in Handlers}

\* The range of the request: the caller's selection.
FileRangeOf(req) == [file_id |-> req.file, range |-> <<3, 4>>]

NoLog == [file |-> 0, handler |-> "", enum |-> NoneV, direct |-> NoneV, after |-> NoneV]

IdleSession == [status |-> "idle", flagged |-> FALSE, req |-> NoReq, pc |-> "idle",
                text |-> NoneV, root |-> NoneV, graph |-> NoneV, deps |-> {},
                ret |-> NoneV, hit |-> FALSE, payload |-> "", depth |-> 0, catches |-> 0,
                ctx |-> NoneV, i |-> 0, fcalls |-> 0, clones |-> 0, after |-> FALSE,
                result |-> NoneV, seen |-> {}]

Init ==
    /\ inputs = InitialInputs
    /\ rev = 0
    /\ changedAt = [k \in InputKeys |-> 0]
    /\ cache = [dk \in DerivedKeys |-> NoneV]
    /\ inflight = [dk \in DerivedKeys |-> 0]
    /\ pending = NoneV
    /\ sess = [s \in Sessions |-> IdleSession]
    /\ execs = [dk \in DerivedKeys |-> 0]
    /\ returned = [dk \in DerivedKeys |-> {}]
    /\ dropped = [dk \in DerivedKeys |-> NoneV]
    /\ staleCommit = FALSE
    /\ discarded = FALSE
    /\ log = NoLog
    /\ enumTree = [f \in Files |-> NoneV]

Sat(n) == IF n < 2 THEN n + 1 ELSE 2

\* The derived key a request reads.
ReqKey(req) == IF req.kind = "crates" THEN CratesKey(req.root) ELSE ParseKey(req.file)

\* ------------------------------------------------- cancellation (lib.rs 19-54)
Running(s) == sess[s].status = "running"

\* salsa_runtime().is_current_revision_canceled(): a write is pending for this session.
is_current_revision_canceled(s) == sess[s].flagged

check_canceled_never(s) == FALSE

check_canceled_always(s) == TRUE

\* lib.rs 49-53: check_canceled throws Canceled iff the current revision is canceled.
check_canceled(s) == is_current_revision_canceled(s)

catch_canceled_all(outcome) ==
    IF outcome.kind = "value" THEN [tag |-> "Ok", value |-> outcome.value]
    ELSE [tag |-> "Err", value |-> "Canceled"]

catch_canceled_resume(outcome) ==
    IF outcome.kind = "value" THEN [tag |-> "Ok", value |-> outcome.value]
    ELSE [tag |-> "resume_unwind", value |-> outcome.value]

\* lib.rs 35-45: catch_unwind(f).map_err(downcast::<Canceled>() or resume_unwind).
catch_canceled(outcome) ==
    IF outcome.kind = "value" THEN [tag |-> "Ok", value |-> outcome.value]
    ELSE IF outcome.value = "Canceled" THEN [tag |-> "Err", value |-> "Canceled"]
    ELSE [tag |-> "resume_unwind", value |-> outcome.value]

\* Call depth below catch_canceled, by position: the closure, a function it calls
\* (with_ctx, a computation function), the closure with_ctx calls.
Depth(s) == IF sess[s].pc = "add" THEN 3
            ELSE IF sess[s].req.kind = "assist" \/ sess[s].pc \notin {"call", "ret"} THEN 2
            ELSE 1

\* A panic unwinds the session's stack: its in-progress markers are released.
Unwind(s, payload) ==
    /\ sess' = [sess EXCEPT ![s].pc = "unwind", ![s].payload = payload,
                            ![s].status = IF payload = "Canceled" THEN "canceled" ELSE "panicked",
                            ![s].depth = Depth(s),
                            ![s].text = NoneV, ![s].root = NoneV, ![s].graph = NoneV,
                            ![s].deps = {}, ![s].ret = NoneV, ![s].hit = FALSE,
                            ![s].ctx = NoneV, ![s].i = 0]
    /\ inflight' = [dk \in DerivedKeys |-> IF inflight[dk] = s THEN 0 ELSE inflight[dk]]

\* ------------------------------------------------- the memoizer (spec 4.1, 4.2)
\* An entry is valid when it was verified at the current revision or when no
\* input of its dependency set changed since its stamp.
EntryValid(dk) ==
    /\ IsSome(cache[dk])
    /\ \/ Get(cache[dk]).verified_at = rev
       \/ \A d \in Get(cache[dk]).deps : changedAt[d] <= Get(cache[dk]).verified_at

ShouldCommit_always(s) == TRUE

\* A computation that finishes in a flagged session is discarded, never committed.
ShouldCommit(s) == ~sess[s].flagged

\* A derived read returns `value` to session s.
Deliver(s, dk, value) ==
    returned' = [returned EXCEPT ![dk] = @ \cup {value}]

\* db.parse(file_id) / db.source_root_crates(id): the memoized read.
Call(s) ==
    /\ Running(s) /\ sess[s].pc = "call"
    /\ LET dk == ReqKey(sess[s].req) IN
       IF Storage(dk[1]) = "memoized" /\ EntryValid(dk)
       THEN LET e == Get(cache[dk]) IN
            /\ cache' = [cache EXCEPT ![dk] = Some([e EXCEPT !.verified_at = rev])]
            /\ sess' = [sess EXCEPT ![s].pc = "ret", ![s].ret = Some(e.value), ![s].hit = TRUE,
                                    ![s].seen = @ \cup {<<dk, e.value, rev>>}]
            /\ Deliver(s, dk, e.value)
            /\ UNCHANGED <<inflight, execs>>
       ELSE /\ inflight[dk] = 0
            /\ inflight' = [inflight EXCEPT ![dk] = s]
            /\ execs' = [execs EXCEPT ![dk] = Sat(@)]
            /\ sess' = [sess EXCEPT ![s].pc = IF dk[1] = "parse" THEN "pq_text" ELSE "src_root",
                                    ![s].deps = {}]
            /\ UNCHANGED <<cache, returned>>
    /\ UNCHANGED <<inputs, rev, changedAt, pending, dropped, staleCommit, discarded, log, enumTree>>

\* db.<input>(key) inside a computation: the current value, recorded as a dependency;
\* an input that was never set is a panic (UnknownKey).
ReadInput(s, k, field, nextpc) ==
    IF IsSome(inputs[k])
    THEN /\ sess' = [sess EXCEPT ![s][field] = inputs[k], ![s].pc = nextpc,
                                 ![s].deps = @ \cup {k},
                                 ![s].seen = @ \cup {<<k, Get(inputs[k]), rev>>}]
         /\ UNCHANGED inflight
    ELSE Unwind(s, "UnknownKey")

\* The computation function returned `value`: store the entry and return it.
Finish(s, dk, value) ==
    /\ inflight' = [inflight EXCEPT ![dk] = 0]
    /\ sess' = [sess EXCEPT ![s].pc = "ret", ![s].ret = Some(value),
                            ![s].text = NoneV, ![s].root = NoneV, ![s].graph = NoneV,
                            ![s].deps = {},
                            ![s].seen = @ \cup {<<dk, value, rev>>}]
    /\ Deliver(s, dk, value)
    /\ IF Storage(dk[1]) = "memoized" /\ ShouldCommit(s)
       THEN /\ cache' = [cache EXCEPT ![dk] =
                            Some([value |-> value, verified_at |-> rev, deps |-> sess[s].deps])]
            /\ staleCommit' = (staleCommit \/ sess[s].flagged)
            /\ UNCHANGED discarded
       ELSE /\ discarded' = TRUE
            /\ UNCHANGED <<cache, staleCommit>>

\* lib.rs 105: let text = db.file_text(file_id);
PqText(s) ==
    /\ Running(s) /\ sess[s].pc = "pq_text"
    /\ ReadInput(s, parse_query_read(sess[s].req.file), "text", "pq_parse")
    /\ UNCHANGED <<inputs, rev, changedAt, cache, pending, execs, returned,
                   dropped, staleCommit, discarded, log, enumTree>>

\* lib.rs 106: SourceFile::parse(&*text)
PqParse(s) ==
    /\ Running(s) /\ sess[s].pc = "pq_parse"
    /\ Finish(s, ParseKey(sess[s].req.file), parse_query_result(Get(sess[s].text)))
    /\ UNCHANGED <<inputs, rev, changedAt, pending, execs, dropped, log, enumTree>>

\* lib.rs 96: let root = db.source_root(id);
SrcRoot(s) ==
    /\ Running(s) /\ sess[s].pc = "src_root"
    /\ ReadInput(s, SourceRootKey(sess[s].req.root), "root", "src_graph")
    /\ UNCHANGED <<inputs, rev, changedAt, cache, pending, execs, returned,
                   dropped, staleCommit, discarded, log, enumTree>>

\* lib.rs 97: let graph = db.crate_graph();
SrcGraph(s) ==
    /\ Running(s) /\ sess[s].pc = "src_graph"
    /\ ReadInput(s, CrateGraphKey, "graph", "src_res")
    /\ UNCHANGED <<inputs, rev, changedAt, cache, pending, execs, returned,
                   dropped, staleCommit, discarded, log, enumTree>>

\* lib.rs 98-100
SrcResult(s) ==
    /\ Running(s) /\ sess[s].pc = "src_res"
    /\ Finish(s, CratesKey(sess[s].req.root),
              source_root_crates_result(Get(sess[s].root), Get(sess[s].graph)))
    /\ UNCHANGED <<inputs, rev, changedAt, pending, execs, dropped, log, enumTree>>

\* ------------------------------------------------- sessions
\* History: the enumerate phase of this request has run at this revision.
EnumeratedBefore(req) ==
    /\ req.kind = "assist" /\ req.compute
    /\ log.file = req.file /\ log.handler = req.handler /\ IsSome(log.enum)

Begin(s, req) ==
    /\ sess[s].status = "idle"
    /\ \A t \in Sessions : t < s => sess[t].status # "idle"
    /\ pending = NoneV
    /\ sess' = [sess EXCEPT ![s] = [IdleSession EXCEPT !.status = "running",
                                                       !.req = req, !.pc = "call",
                                                       !.after = EnumeratedBefore(req)]]
    /\ UNCHANGED <<inputs, rev, changedAt, cache, inflight, pending, execs, returned,
                   dropped, staleCommit, discarded, log, enumTree>>

Checkpoints == {"call", "ret", "add"}

\* The request's code calls db.check_canceled().
CheckCanceled(s) ==
    /\ Running(s) /\ sess[s].pc \in Checkpoints
    /\ IF check_canceled(s) THEN Unwind(s, "Canceled") ELSE UNCHANGED <<sess, inflight>>
    /\ UNCHANGED <<inputs, rev, changedAt, cache, pending, execs, returned,
                   dropped, staleCommit, discarded, log, enumTree>>

\* The closure returns the value it read: catch_canceled gives Ok(value).
Ret(s) ==
    /\ Running(s) /\ sess[s].pc = "ret" /\ sess[s].req.kind # "assist"
    /\ sess' = [sess EXCEPT ![s].pc = "done", ![s].status = "completed",
                            ![s].ret = NoneV, ![s].hit = FALSE, ![s].seen = {},
                            ![s].result = Some(catch_canceled(
                                [kind |-> "value", value |-> Get(sess[s].ret)]))]
    /\ UNCHANGED <<inputs, rev, changedAt, cache, inflight, pending, execs, returned,
                   dropped, staleCommit, discarded, log, enumTree>>

\* The unwinding reaches catch_canceled.
Catch(s) ==
    /\ sess[s].pc = "unwind"
    /\ sess' = [sess EXCEPT ![s].pc = "done", ![s].catches = @ + 1, ![s].seen = {},
                            ![s].result = Some(catch_canceled(
                                [kind |-> "panic", value |-> sess[s].payload]))]
    /\ UNCHANGED <<inputs, rev, changedAt, cache, inflight, pending, execs, returned,
                   dropped, staleCommit, discarded, log, enumTree>>

\* The request is over and its session is destroyed.
End(s) ==
    /\ sess[s].pc = "done"
    /\ sess' = [sess EXCEPT ![s] = IdleSession]
    /\ UNCHANGED <<inputs, rev, changedAt, cache, inflight, pending, execs, returned,
                   dropped, staleCommit, discarded, log, enumTree>>

\* ------------------------------------------------- assists (assist_ctx.rs)
\* The edit builder operations an action's closure performs.
Op(op, range, text) == [op |-> op, range |-> range, text |-> text]

\* assist_ctx.rs 123-128: #[derive(Default)] AssistBuilder.
AssistBuilder_default == [edit |-> <<>>, cursor_position |-> NoneV, target |-> NoneV]

\* assist_ctx.rs 131-166: replace, delete, insert, set_cursor, target.
AssistBuilder_apply(b, o) ==
    IF o.op = "replace" THEN [b EXCEPT !.edit = Append(@, [delete |-> o.range, insert |-> o.text])]
    ELSE IF o.op = "delete" THEN [b EXCEPT !.edit = Append(@, [delete |-> o.range, insert |-> ""])]
    ELSE IF o.op = "insert" THEN [b EXCEPT !.edit = Append(@, [delete |-> o.range, insert |-> o.text])]
    ELSE IF o.op = "set_cursor" THEN [b EXCEPT !.cursor_position = Some(o.range[1])]
    ELSE [b EXCEPT !.target = Some(o.range)]

\* f(&mut edit): the closure's operations in order.
RECURSIVE RunBuilder(_, _)
RunBuilder(f, b) == IF f = <<>> THEN b ELSE RunBuilder(Tail(f), AssistBuilder_apply(b, Head(f)))

\* ra_text_edit TextEditBuilder::finish: the atoms ordered by the start of their range.
RECURSIVE finish(_)
finish(atoms) ==
    IF atoms = <<>> THEN <<>>
    ELSE LET m == CHOOSE j \in 1..Len(atoms) :
                     \A l \in 1..Len(atoms) :
                        \/ atoms[j].delete[1] < atoms[l].delete[1]
                        \/ (atoms[j].delete[1] = atoms[l].delete[1] /\ j <= l)
         IN <<atoms[m]>> \o finish([l \in 1..(Len(atoms) - 1) |->
                                       IF l < m THEN atoms[l] ELSE atoms[l + 1]])

\* assist_ctx.rs 172-178: AssistBuilder::build.
AssistBuilder_build(b) ==
    [edit |-> finish(b.edit), cursor_position |-> b.cursor_position, target |-> b.target]

with_ctx_keeps_mode(parse, frange, should_compute_edit) ==
    [frange |-> frange, source_file |-> parse.tree,
     should_compute_edit |-> should_compute_edit,
     assist |-> [variant |-> IF should_compute_edit /\ ~IsSome(log.enum)
                             THEN "Resolved" ELSE "Unresolved",
                 items |-> <<>>]]

with_ctx_keeps_tree(parse, frange, should_compute_edit) ==
    [frange |-> frange,
     source_file |-> IF should_compute_edit /\ IsSome(enumTree[frange.file_id])
                     THEN Get(enumTree[frange.file_id]) ELSE parse.tree,
     should_compute_edit |-> should_compute_edit,
     assist |-> [variant |-> IF should_compute_edit THEN "Resolved" ELSE "Unresolved",
                 items |-> <<>>]]

\* assist_ctx.rs 70-80: the context with_ctx builds from `parse` = db.parse(frange.file_id).
with_ctx(parse, frange, should_compute_edit) ==
    [frange |-> frange, source_file |-> parse.tree,
     should_compute_edit |-> should_compute_edit,
     assist |-> [variant |-> IF should_compute_edit THEN "Resolved" ELSE "Unresolved",
                 items |-> <<>>]]

AssistLabel(id, label) == [label |-> label, id |-> id]

add_action_eager(assist, id, label, f) ==
    LET action == AssistBuilder_build(RunBuilder(f, AssistBuilder_default)) IN
    IF assist.variant = "Unresolved"
    THEN [assist |-> [assist EXCEPT !.items = Append(@, AssistLabel(id, label))],
          calls |-> IF action.edit = <<>> THEN 0 ELSE 1]
    ELSE [assist |-> [assist EXCEPT !.items = Append(@, <<AssistLabel(id, label), action>>)],
          calls |-> 1]

add_action_overwrites(assist, id, label, f) ==
    IF assist.variant = "Unresolved"
    THEN [assist |-> [assist EXCEPT !.items = <<AssistLabel(id, label)>>], calls |-> 0]
    ELSE [assist |-> [assist EXCEPT !.items = Append(@,
               <<AssistLabel(id, label), AssistBuilder_build(RunBuilder(f, AssistBuilder_default))>>)],
          calls |-> 1]

\* assist_ctx.rs 82-101: add_action; `calls` counts the invocations of f.
add_action(assist, id, label, f) ==
    IF assist.variant = "Unresolved"
    THEN [assist |-> [assist EXCEPT !.items = Append(@, AssistLabel(id, label))], calls |-> 0]
    ELSE [assist |-> [assist EXCEPT !.items = Append(@,
               <<AssistLabel(id, label), AssistBuilder_build(RunBuilder(f, AssistBuilder_default))>>)],
          calls |-> 1]

\* assist_ctx.rs 103-105: build.
AssistCtx_build(ctx) == Some(ctx.assist)

\* The closure given to with_ctx: the add_action calls it makes for a context.
Handler(h, ctx) ==
    IF h = "add_derive"
    THEN IF ctx.source_file.text = "fn f() {}"
         THEN <<[id |-> "add_derive", label |-> "add derive",
                 f |-> <<Op("insert", <<0, 0>>, "derive"), Op("set_cursor", <<9, 9>>, "")>>]>>
         ELSE <<>>
    ELSE <<[id |-> "flip_comma", label |-> "flip comma",
            f |-> <<Op("replace", <<5, 6>>, ctx.source_file.text),
                    Op("replace", ctx.frange.range, "x"),
                    Op("target", ctx.frange.range, "")>>],
           [id |-> "remove_dbg", label |-> "remove dbg",
            f |-> <<Op("delete", ctx.frange.range, ""), Op("set_cursor", <<1, 1>>, ""),
                    Op("set_cursor", <<3, 3>>, "")>>]>>

\* assist_ctx.rs 74-79: db.parse returned; the context is built and given to f.
WithCtx(s) ==
    /\ Running(s) /\ sess[s].pc = "ret" /\ sess[s].req.kind = "assist"
    /\ LET ctx == with_ctx(Get(sess[s].ret), FileRangeOf(sess[s].req), sess[s].req.compute) IN
       /\ sess' = [sess EXCEPT ![s].pc = "add", ![s].ctx = Some(ctx), ![s].ret = NoneV,
                               ![s].hit = FALSE]
       /\ enumTree' = IF sess[s].req.compute THEN enumTree
                      ELSE [enumTree EXCEPT ![sess[s].req.file] = Some(ctx.source_file)]
    /\ UNCHANGED <<inputs, rev, changedAt, cache, inflight, pending, execs, returned,
                   dropped, staleCommit, discarded, log>>

\* The closure calls ctx.add_action(id, label, f) for its next action.
AddAction(s) ==
    /\ Running(s) /\ sess[s].pc = "add"
    /\ LET ctx == Get(sess[s].ctx)
           regs == Handler(sess[s].req.handler, ctx) IN
       /\ sess[s].i < Len(regs)
       /\ LET reg == regs[sess[s].i + 1]
              r == add_action(ctx.assist, reg.id, reg.label, reg.f) IN
          sess' = [sess EXCEPT ![s].ctx = Some([ctx EXCEPT !.assist = r.assist]),
                               ![s].i = @ + 1, ![s].fcalls = @ + r.calls]
    /\ UNCHANGED <<inputs, rev, changedAt, cache, inflight, pending, execs, returned,
                   dropped, staleCommit, discarded, log, enumTree>>

AssistCtx_clone_default(ctx) ==
    [ctx EXCEPT !.assist = [variant |-> "Unresolved", items |-> <<>>]]

\* assist_ctx.rs 57-67: Clone copies the four fields kept here; assist is cloned.
AssistCtx_clone(ctx) ==
    [frange |-> ctx.frange, source_file |-> ctx.source_file,
     should_compute_edit |-> ctx.should_compute_edit, assist |-> ctx.assist]

\* The closure goes on with a clone of its context.
CloneCtx(s) ==
    /\ Running(s) /\ sess[s].pc = "add"
    /\ sess[s].clones < MaxClones
    /\ sess' = [sess EXCEPT ![s].ctx = Some(AssistCtx_clone(Get(sess[s].ctx))),
                            ![s].clones = @ + 1]
    /\ UNCHANGED <<inputs, rev, changedAt, cache, inflight, pending, execs, returned,
                   dropped, staleCommit, discarded, log, enumTree>>

\* The closure returns ctx.build(): catch_canceled gives Ok(Some(assist)).
Build(s) ==
    /\ Running(s) /\ sess[s].pc = "add"
    /\ LET ctx == Get(sess[s].ctx)
           req == sess[s].req
           base == IF log.file = req.file /\ log.handler = req.handler THEN log
                   ELSE [NoLog EXCEPT !.file = req.file, !.handler = req.handler]
           slot == IF ~req.compute THEN "enum" ELSE IF sess[s].after THEN "after" ELSE "direct" IN
       /\ sess[s].i = Len(Handler(req.handler, ctx))
       /\ sess' = [sess EXCEPT ![s].pc = "done", ![s].status = "completed",
                               ![s].ctx = NoneV, ![s].i = 0, ![s].seen = {},
                               ![s].result = Some(catch_canceled(
                                   [kind |-> "value", value |-> AssistCtx_build(ctx)]))]
       /\ log' = [base EXCEPT ![slot] = AssistCtx_build(ctx)]
    /\ UNCHANGED <<inputs, rev, changedAt, cache, inflight, pending, execs, returned,
                   dropped, staleCommit, discarded, enumTree>>

\* ------------------------------------------------- writes (spec 4.1, 4.3, 5)
NoSessionRunning_skip == TRUE

\* lib.rs 26-29: the change is not applied while a query of an earlier session runs.
NoSessionRunning == \A s \in Sessions : ~Running(s)

Apply_if_changed(k, v) ==
    /\ inputs' = [inputs EXCEPT ![k] = Some(v)]
    /\ rev' = IF inputs[k] = Some(v) THEN rev ELSE rev + 1
    /\ changedAt' = [changedAt EXCEPT ![k] = rev + 1]
    /\ cache' = [dk \in DerivedKeys |->
                   IF IsSome(cache[dk]) /\ k \in Get(cache[dk]).deps THEN NoneV ELSE cache[dk]]
    /\ dropped' = [dk \in DerivedKeys |->
                     IF IsSome(cache[dk]) /\ k \in Get(cache[dk]).deps
                     THEN Some(Get(cache[dk]).value) ELSE NoneV]
    /\ pending' = NoneV
    /\ execs' = [dk \in DerivedKeys |-> 0]
    /\ returned' = [dk \in DerivedKeys |-> {}]
    /\ log' = NoLog

\* The write is applied: the fact is overwritten, the revision advances and every
\* entry whose dependency set contains the key is invalidated.
Apply(k, v) ==
    /\ inputs' = [inputs EXCEPT ![k] = Some(v)]
    /\ rev' = rev + 1
    /\ changedAt' = [changedAt EXCEPT ![k] = rev + 1]
    /\ cache' = [dk \in DerivedKeys |->
                   IF IsSome(cache[dk]) /\ k \in Get(cache[dk]).deps THEN NoneV ELSE cache[dk]]
    /\ dropped' = [dk \in DerivedKeys |->
                     IF IsSome(cache[dk]) /\ k \in Get(cache[dk]).deps
                     THEN Some(Get(cache[dk]).value) ELSE NoneV]
    /\ pending' = NoneV
    /\ execs' = [dk \in DerivedKeys |-> 0]
    /\ returned' = [dk \in DerivedKeys |-> {}]
    /\ log' = NoLog

\* set(key, value) is called: writers serialize; every running session is flagged
\* and the write waits for them, or is applied at once when none is running.
Set(k, v) ==
    /\ pending = NoneV
    /\ rev < MaxRev
    /\ IF NoSessionRunning
       THEN Apply(k, v) /\ UNCHANGED sess
       ELSE /\ pending' = Some(<<k, v>>)
            /\ sess' = [s \in Sessions |->
                          IF Running(s) THEN [sess[s] EXCEPT !.flagged = TRUE] ELSE sess[s]]
            /\ UNCHANGED <<inputs, rev, changedAt, cache, execs, returned, dropped, log>>
    /\ discarded' = FALSE
    /\ UNCHANGED <<inflight, staleCommit, enumTree>>

\* The waiting write is applied once every earlier session completed or was canceled.
SetApply ==
    /\ IsSome(pending)
    /\ NoSessionRunning
    /\ Apply(Get(pending)[1], Get(pending)[2])
    /\ UNCHANGED <<inflight, sess, staleCommit, discarded, enumTree>>

\* The steps of the system when requests `reqs` for syntax trees arrive on the
\* sessions `ss` and the inputs `keys` are written.
ParseStep(ss, reqs, keys) ==
    \/ \E s \in ss, req \in reqs : Begin(s, req)
    \/ \E s \in ss : Call(s)
    \/ \E s \in ss : PqText(s)
    \/ \E s \in ss : PqParse(s)
    \/ \E s \in ss : CheckCanceled(s)
    \/ \E s \in ss : Ret(s)
    \/ \E s \in ss : Catch(s)
    \/ \E s \in ss : End(s)
    \/ \E k \in keys : \E v \in InputVals(k) : Set(k, v)
    \/ SetApply

\* The same with requests for the crates of a source root.
Step(ss, reqs, keys) ==
    \/ ParseStep(ss, reqs, keys)
    \/ \E s \in ss : SrcRoot(s)
    \/ \E s \in ss : SrcGraph(s)
    \/ \E s \in ss : SrcResult(s)

\* One request at a time, every query, every input.
Next == Step({1}, Requests, QueriedKeys)

Spec == Init /\ [][Next]_vars

\* Concurrent requests for the syntax trees while file 1 is edited.
ConcRequests == {r \in Requests : r.kind = "parse"}

NextConc == ParseStep(Sessions, ConcRequests, {FileTextKey(1)})

SpecConc == Init /\ [][NextConc]_vars

\* The steps a running session takes by itself: its thread keeps running.
Proceed(s) == Call(s) \/ PqText(s) \/ PqParse(s) \/ Ret(s)

\* The concurrent requests, each session's thread scheduled fairly: a computation
\* runs to completion or to abort and never pauses mid-way, and a reader waiting
\* for a computation in progress is woken when it ends.
SpecLive ==
    /\ Init /\ [][NextConc]_vars
    /\ \A s \in Sessions : WF_vars(Proceed(s)) /\ SF_vars(Call(s))

\* A request for assists on file 1, and edits of file 1.
NextAssist ==
    \/ \E req \in AssistRequests : Begin(1, req)
    \/ Call(1)
    \/ PqText(1)
    \/ PqParse(1)
    \/ WithCtx(1)
    \/ AddAction(1)
    \/ CloneCtx(1)
    \/ Build(1)
    \/ CheckCanceled(1)
    \/ Catch(1)
    \/ End(1)
    \/ \E v \in Texts : Set(FileTextKey(1), v)
    \/ SetApply

SpecAssist == Init /\ [][NextAssist]_vars

\* Requests for the syntax tree of file 1 while every input query is written.
NextInputs == Step({1}, {ParseReq(1), CratesReq(1)}, InputKeys \ {FileTextKey(2)})

SpecInputs == Init /\ [][NextInputs]_vars

\* ================================================= properties
\* The inputs a derived query is a function of: parse(f) of file_text(f),
\* source_root_crates(r) of source_root(r) and crate_graph().
InputsOf(dk) == IF dk[1] = "parse" THEN {FileTextKey(dk[2])}
                ELSE {SourceRootKey(dk[2]), CrateGraphKey}

\* The value a derived query has on the current inputs.
ValueOf(dk) == IF dk[1] = "parse" THEN SourceFile_parse(Get(inputs[FileTextKey(dk[2])]))
               ELSE source_root_crates_result(Get(inputs[SourceRootKey(dk[2])]),
                                              Get(inputs[CrateGraphKey]))

\* C1 Cache coherence: while no write is in progress, the reads of a derived key
\* made since the last write all returned the same value, and its computation
\* function ran at most once for them.
C1_CacheCoherence ==
    pending = NoneV =>
        \A dk \in DerivedKeys :
            returned[dk] # {} => Cardinality(returned[dk]) = 1 /\ execs[dk] <= 1

\* A second read at the same revision is answered from the entry the first one stored.
C1_Witness ==
    \E s \in Sessions :
        /\ sess[s].pc = "ret" /\ sess[s].hit /\ pending = NoneV
        /\ execs[ReqKey(sess[s].req)] = 1
        /\ returned[ReqKey(sess[s].req)] = {Get(sess[s].ret)}

\* The step in which session s gets the answer to its derived read.
Answered(s) == sess[s].pc = "call" /\ sess'[s].pc \in {"ret", "pq_text", "src_root"}

\* C2 Invalidation correctness: a write leaves every stored entry that does not
\* depend on the written key in the cache, and a read is served from the cache
\* without executing the computation exactly when an entry is stored and no input
\* the query depends on was written after the entry's stamp; otherwise the
\* computation is executed again.
C2_Invalidation ==
    [][ /\ \A s \in Sessions :
              Answered(s) =>
                 LET dk == ReqKey(sess[s].req) IN
                 (sess'[s].pc = "ret" /\ execs' = execs)
                    <=> /\ IsSome(cache[dk])
                        /\ \A k \in InputsOf(dk) : changedAt[k] <= Get(cache[dk]).verified_at
        /\ rev' # rev =>
              \A dk \in DerivedKeys :
                 (\A k \in InputsOf(dk) : changedAt'[k] = changedAt[k]) => cache'[dk] = cache[dk]
      ]_vars

\* After file_text(1) was written, parse(1) was computed again in the new revision
\* while source_root_crates(1) is served from the entry stored before the write.
C2_Witness ==
    \E s \in Sessions :
        /\ sess[s].pc = "ret" /\ sess[s].hit
        /\ sess[s].req.kind = "crates"
        /\ execs[CratesKey(1)] = 0
        /\ rev > 0 /\ changedAt[FileTextKey(1)] = rev
        /\ IsSome(dropped[ParseKey(1)])
        /\ execs[ParseKey(1)] = 1

\* C3 No stale result: a completed read of parse(file_id) returns the parser's
\* result on the current value of file_text(file_id).
C3_NoStaleParse ==
    \A s \in Sessions :
        (sess[s].pc = "ret" /\ sess[s].req.kind = "parse") =>
            /\ IsSome(inputs[FileTextKey(sess[s].req.file)])
            /\ Get(sess[s].ret) = ValueOf(ParseKey(sess[s].req.file))

\* The end-to-end scenario: parse(1) was cached for "fn f() {}", the text was set
\* to "fn g() {}" and the second parse is computed from the new text.
C3_Witness ==
    \E s \in Sessions :
        /\ sess[s].pc = "ret" /\ sess[s].req = ParseReq(1)
        /\ ~sess[s].hit
        /\ dropped[ParseKey(1)] = Some(SourceFile_parse("fn f() {}"))
        /\ Get(sess[s].ret) = SourceFile_parse("fn g() {}")

\* C4 Cancellation safety: the result of a computation that was in flight when a
\* write arrived is never committed, and no stored entry is stamped with a
\* revision older than a write to an input it depends on.
C4_CancellationSafety ==
    /\ ~staleCommit
    /\ \A dk \in DerivedKeys :
          IsSome(cache[dk]) =>
             \A k \in InputsOf(dk) : changedAt[k] <= Get(cache[dk]).verified_at

\* A computation in flight during a set call finished, was discarded, and the
\* write has been applied.
C4_Witness ==
    /\ discarded /\ pending = NoneV /\ rev > 0
    /\ \E dk \in DerivedKeys : \E k \in InputsOf(dk) : changedAt[k] = rev /\ cache[dk] = NoneV

\* C5 Snapshot consistency: everything a session has read was read at one
\* revision, and while the session runs it is the current value of what was read.
C5_SnapshotConsistency ==
    \A s \in Sessions :
        /\ \A o1, o2 \in sess[s].seen : o1[3] = o2[3]
        /\ Running(s) =>
              \A o \in sess[s].seen :
                 /\ o[3] = rev
                 /\ o[2] = IF o[1] \in InputKeys THEN Get(inputs[o[1]]) ELSE ValueOf(o[1])

\* A flagged session goes on reading while the write waits.
C5_Witness ==
    \E s \in Sessions :
        /\ Running(s) /\ sess[s].flagged /\ IsSome(pending)
        /\ Cardinality(sess[s].seen) >= 2

\* C6 Canceled is caught at the boundary: a Canceled signal raised at any depth
\* below catch_canceled reaches it once and comes back as Err(Canceled), never
\* as a resumed unwinding.
C6_CanceledCaught ==
    \A s \in Sessions :
        (sess[s].pc = "done" /\ sess[s].payload = "Canceled") =>
            /\ sess[s].result = Some([tag |-> "Err", value |-> "Canceled"])
            /\ sess[s].catches = 1

\* Canceled was raised inside the closure with_ctx calls and caught at the boundary.
C6_Witness ==
    \E s \in Sessions :
        /\ sess[s].pc = "done" /\ sess[s].payload = "Canceled" /\ sess[s].depth = 3
        /\ sess[s].result = Some([tag |-> "Err", value |-> "Canceled"])

\* The add_action calls the closure of session s has made so far.
Registered(s) ==
    SubSeq(Handler(sess[s].req.handler, Get(sess[s].ctx)), 1, sess[s].i)

\* The action a closure builds on a fresh edit builder.
ActionOf(f) == AssistBuilder_build(RunBuilder(f, AssistBuilder_default))

\* C7 add_action by mode: in enumerate mode the context holds the (id, label)
\* pairs of the calls made and no build_fn was invoked; in compute mode every call
\* invoked its build_fn once, on a fresh builder, and the context holds
\* (id, label, edit action) for each.
C7_AddActionByMode ==
    \A s \in Sessions :
        IsSome(sess[s].ctx) =>
            LET regs == Registered(s)
                assist == Get(sess[s].ctx).assist IN
            IF ~sess[s].req.compute
            THEN /\ sess[s].fcalls = 0
                 /\ assist = [variant |-> "Unresolved",
                              items |-> [j \in 1..Len(regs) |->
                                            AssistLabel(regs[j].id, regs[j].label)]]
            ELSE /\ sess[s].fcalls = Len(regs)
                 /\ assist = [variant |-> "Resolved",
                              items |-> [j \in 1..Len(regs) |->
                                            <<AssistLabel(regs[j].id, regs[j].label),
                                              ActionOf(regs[j].f)>>]]

\* Two actions were registered in enumerate mode.
C7_Witness ==
    \E s \in Sessions :
        /\ IsSome(sess[s].ctx) /\ ~sess[s].req.compute
        /\ sess[s].i = 2 /\ Len(Get(sess[s].ctx).assist.items) = 2

\* The (id, label) pairs of a result.
LabelsOf(assist) ==
    IF assist.variant = "Unresolved" THEN assist.items
    ELSE [j \in 1..Len(assist.items) |-> assist.items[j][1]]

\* The compute-mode results logged at this revision.
Computed == {r \in {log.direct, log.after} : IsSome(r)}

\* C8 Enumerate/compute equivalence: at one revision, for one file, range and
\* closure, the enumerate result and the compute result carry the same ids and
\* labels in the same order and differ only in the edit actions.
C8_EnumerateComputeEquivalence ==
    IsSome(log.enum) =>
        /\ Get(log.enum).variant = "Unresolved"
        /\ \A r \in Computed :
              /\ Get(r).variant = "Resolved"
              /\ LabelsOf(Get(r)) = LabelsOf(Get(log.enum))

\* Both modes returned the two actions of the same closure.
C8_Witness ==
    /\ IsSome(log.enum) /\ IsSome(log.direct)
    /\ Len(Get(log.enum).items) = 2 /\ Len(Get(log.direct).items) = 2

\* C9 Idempotent read-then-transform: at one revision the compute phase run after
\* the enumerate phase returns the same result as compute mode run directly.
C9_EnumerateThenCompute ==
    (IsSome(log.direct) /\ IsSome(log.after)) => log.after = log.direct

\* Compute ran directly, then enumerate, then compute again, with actions to return.
C9_Witness ==
    /\ IsSome(log.direct) /\ IsSome(log.enum) /\ IsSome(log.after)
    /\ Len(Get(log.after).items) >= 1

\* C10 Each phase re-derives its tree: the context of a phase is built from the
\* parse of the text file_text holds when the phase runs.
C10_PhaseRederivesTree ==
    \A s \in Sessions :
        IsSome(sess[s].ctx) =>
            Get(sess[s].ctx).source_file =
                SourceFile_parse(Get(inputs[FileTextKey(sess[s].req.file)])).tree

\* The text was written between the phases: the compute phase has another tree
\* than the enumerate phase had.
C10_Witness ==
    \E s \in Sessions :
        /\ IsSome(sess[s].ctx) /\ sess[s].req.compute
        /\ IsSome(enumTree[sess[s].req.file])
        /\ Get(enumTree[sess[s].req.file]) # Get(sess[s].ctx).source_file

\* A step in which an input write is committed: a waiting write is applied, or a
\* set call finds no running session and is applied at once.
Committed ==
    \/ SetApply
    \/ NoSessionRunning /\ \E k \in InputKeys : \E v \in InputVals(k) : Set(k, v)

\* C11: the revision never decreases; a step that commits a write to any of the
\* five input queries advances it by exactly one, also when the written value
\* equals the stored one, and every other step (a derived read, check_canceled,
\* an unwinding, a set call that only flags and waits) leaves it unchanged.
C11_RevisionAdvance ==
    [][ /\ rev' >= rev
        /\ (Committed => rev' = rev + 1)
        /\ (~Committed => rev' = rev) ]_vars

\* Two writes were committed, each a value equal to the stored one, one of them
\* to an input no query reads: the revision is 2 and the store is as loaded.
C11_Witness ==
    /\ rev = 2 /\ inputs = InitialInputs
    /\ \E k \in UnqueriedKeys : changedAt[k] > 0

\* The sessions that are inside the computation function of dk.
Computing(dk) ==
    {s \in Sessions : Running(s) /\ ReqKey(sess[s].req) = dk
                         /\ sess[s].pc \in {"pq_text", "pq_parse", "src_root", "src_graph", "src_res"}}

\* The sessions that hold the answer to their read of dk.
Holding(dk) == {s \in Sessions : sess[s].pc = "ret" /\ ReqKey(sess[s].req) = dk}

C13_WritersSerialize ==
    [][ /\ IsSome(pending) =>
              \/ pending' = pending /\ rev' = rev /\ inputs' = inputs
              \/ /\ pending' = NoneV /\ rev' = rev + 1
                 /\ inputs' = [inputs EXCEPT ![Get(pending)[1]] = Some(Get(pending)[2])]
        /\ Cardinality({k \in InputKeys : inputs'[k] # inputs[k]}) <= 1
        /\ inputs' # inputs => rev' # rev
        /\ rev' # rev =>
              \A s \in Sessions :
                  /\ sess[s].status \in {"idle", "completed", "canceled", "panicked"}
                  /\ sess'[s] = sess[s]
      ]_vars

\* A write that waited for two sessions has been applied: one of them completed,
\* the other was canceled and is still unwinding.
C13_Witness ==
    /\ pending = NoneV /\ rev > 0
    /\ \E s, t \in Sessions :
          /\ sess[s].status = "canceled" /\ sess[s].pc = "unwind"
          /\ sess[t].status = "completed" /\ sess[t].flagged

\* The variant with_ctx chooses for a mode.
VariantFor(should_compute_edit) == IF should_compute_edit THEN "Resolved" ELSE "Unresolved"

\* C14: one request, one variant. From with_ctx on, through every add_action and
\* every clone, the context keeps the mode of its request and its accumulated
\* Assist is Resolved exactly when should_compute_edit is true and Unresolved
\* otherwise; the Assist that build() returns has that variant too.
C14_OneVariant ==
    \A s \in Sessions :
        /\ IsSome(sess[s].ctx) =>
               LET ctx == Get(sess[s].ctx) IN
               /\ ctx.should_compute_edit = sess[s].req.compute
               /\ ctx.assist.variant = VariantFor(ctx.should_compute_edit)
               /\ Len(ctx.assist.items) = sess[s].i
        /\ (sess[s].pc = "done" /\ sess[s].req.kind = "assist"
              /\ Get(sess[s].result).tag = "Ok") =>
               /\ IsSome(Get(sess[s].result).value)
               /\ Get(Get(sess[s].result).value).variant = VariantFor(sess[s].req.compute)

\* A compute-mode request registered an action, cloned its context, registered a
\* second action on the clone and built the result.
C14_Witness ==
    \E s \in Sessions :
        /\ sess[s].pc = "done" /\ sess[s].req.kind = "assist" /\ sess[s].req.compute
        /\ sess[s].clones = 1
        /\ Get(sess[s].result).tag = "Ok"
        /\ Len(Get(Get(sess[s].result).value).items) = 2

\* A step in which set(key, value) is called and accepted.
SetCalled == pending = NoneV /\ (IsSome(pending') \/ rev' # rev)

\* check_canceled, called by session s, raises Canceled.
Raises(s) ==
    CheckCanceled(s) /\ sess'[s].status = "canceled" /\ sess'[s].payload = "Canceled"

\* check_canceled, called by session s, changes something.
ChecksWithEffect(s) == CheckCanceled(s) /\ vars' # vars

\* The ways a request ends: it returned (its closure returned a value, or failed
\* with an error other than Canceled) or it was canceled.
Terminal == {"completed", "panicked", "canceled"}

\* C15: a set call flags exactly the sessions running at that moment and touches
\* no other session, and a session is flagged by nothing else, so one started
\* later is not flagged by it. check_canceled raises Canceled if and only if the
\* calling session is flagged, and changes no state otherwise. A session goes
\* from running to completed or to canceled (only by a check_canceled of a
\* flagged session) and keeps its terminal state until it is destroyed.
C15_CancellationController ==
    /\ [](\A s \in Sessions :
             (Running(s) /\ sess[s].pc \in Checkpoints) =>
                 /\ (ENABLED Raises(s)) <=> sess[s].flagged
                 /\ ~sess[s].flagged => ~(ENABLED ChecksWithEffect(s)))
    /\ [][ \A s \in Sessions :
             /\ SetCalled =>
                   sess'[s] = IF Running(s) THEN [sess[s] EXCEPT !.flagged = TRUE] ELSE sess[s]
             /\ (sess'[s].flagged /\ ~sess[s].flagged) => (SetCalled /\ Running(s))
             /\ sess[s].status = "idle" => sess'[s].status \in {"idle", "running"}
             /\ sess[s].status = "running" => sess'[s].status \in {"running"} \cup Terminal
             /\ sess[s].status \in Terminal =>
                   (sess'[s].status = sess[s].status \/ sess'[s] = IdleSession)
             /\ (sess'[s].status = "canceled" /\ sess[s].status # "canceled") =>
                   /\ Running(s) /\ sess[s].flagged /\ sess[s].pc \in Checkpoints
                   /\ sess'[s].payload = "Canceled"
             /\ (sess'[s].status = "running" /\ sess[s].status = "idle") => ~sess'[s].flagged
       ]_vars

\* A set call flagged session 1, which raised Canceled at its next check and is
\* unwinding; session 2 started after the write was applied and is not flagged.
C15_Witness ==
    /\ sess[1].status = "canceled" /\ sess[1].flagged /\ sess[1].pc = "unwind"
    /\ Running(2) /\ ~sess[2].flagged /\ sess[2].pc = "ret"
    /\ rev > 0 /\ pending = NoneV

\* C17: cancellation comes from a concurrent write only. A canceled session is a
\* flagged one, and a session is flagged only by a set call made while it runs.
\* Under fair scheduling a running session that no set call has flagged goes on
\* until it has returned (completed, or ended by an error of its own) unless a
\* set call flags it first: nothing but a write stops it.
C17_CanceledOnlyByWrite ==
    /\ [](\A s \in Sessions : sess[s].status = "canceled" => sess[s].flagged)
    /\ [][\A s \in Sessions :
             (sess'[s].flagged /\ ~sess[s].flagged) => (SetCalled /\ Running(s))]_vars
    /\ \A s \in Sessions :
          (Running(s) /\ ~sess[s].flagged)
             ~> (sess[s].status \in {"completed", "panicked"} \/ sess[s].flagged)

\* One session ran with no write and completed; the other was running when a set
\* call was made and was canceled.
C17_Witness ==
    \E s, t \in Sessions :
        /\ sess[s].status = "completed" /\ ~sess[s].flagged
        /\ sess[s].result = Some([tag |-> "Ok", value |-> SourceFile_parse("fn f() {}")])
        /\ sess[t].status = "canceled" /\ sess[t].flagged

\* The step in which the computation function of session s completes successfully:
\* it returns and no set call has flagged the session meanwhile (C4 is about the
\* flagged ones).
Completes(s) ==
    sess[s].pc \in {"pq_parse", "src_res"} /\ sess'[s].pc = "ret" /\ ~sess[s].flagged

C19_DepsCoverReads ==
    /\ \A dk \in DerivedKeys :
          IsSome(cache[dk]) => InputsOf(dk) \subseteq Get(cache[dk]).deps
    /\ \A s \in Sessions :
          sess[s].pc \in {"pq_parse", "src_graph", "src_res"} =>
             /\ {o[1] : o \in {p \in sess[s].seen : p[1] \in InputKeys}} \subseteq sess[s].deps
             /\ sess[s].deps \subseteq InputsOf(ReqKey(sess[s].req))
             /\ sess[s].deps # {}

\* Both derived queries have a stored entry, each with the inputs it read.
C19_Witness ==
    /\ IsSome(cache[ParseKey(1)]) /\ IsSome(cache[CratesKey(1)])
    /\ Get(cache[ParseKey(1)]).deps = {FileTextKey(1)}
    /\ Get(cache[CratesKey(1)]).deps = {SourceRootKey(1), CrateGraphKey}
    /\ rev > 0

\* C20: catch_canceled(f) gives Ok(v) when f returned v; it gives Err(Canceled)
\* only when f unwound with the Canceled payload; any other payload is raised
\* again, unchanged, to the caller of catch_canceled.
C20_CatchCanceled ==
    /\ [](\A s \in Sessions :
             (sess[s].pc = "done" /\ IsSome(sess[s].result)) =>
                LET r == Get(sess[s].result) IN
                /\ r.tag = "Ok" <=> sess[s].status = "completed"
                /\ r.tag = "Err" <=> sess[s].payload = "Canceled"
                /\ r.tag = "Err" => r.value = "Canceled" /\ sess[s].status = "canceled"
                /\ r.tag = "resume_unwind" <=> sess[s].status = "panicked"
                /\ r.tag = "resume_unwind" =>
                      r.value = sess[s].payload /\ r.value = "UnknownKey")
    /\ [][\A s \in Sessions :
             (sess[s].pc = "ret" /\ sess'[s].pc = "done") =>
                sess'[s].result = Some([tag |-> "Ok", value |-> Get(sess[s].ret)])]_vars

\* One request was canceled and got Err(Canceled); the other read the text of a
\* file that has none, and its panic went through catch_canceled unchanged.
C20_Witness ==
    \E s, t \in Sessions :
        /\ sess[s].pc = "done"
        /\ sess[s].result = Some([tag |-> "Err", value |-> "Canceled"])
        /\ sess[t].pc = "done" /\ sess[t].req = ParseReq(2)
        /\ sess[t].result = Some([tag |-> "resume_unwind", value |-> "UnknownKey"])
====
